---- MODULE Spec2Model ----
(***************************************************************************)
(* A state-machine model of src/src/lib.rs: DynArray<T>, a fixed-length    *)
(* heap array built on raw alloc/dealloc, and its consuming iterator       *)
(* IntoIter<T>.                                                            *)
(*                                                                         *)
(* The heap is a finite set of blocks.  Each block remembers the layout    *)
(* size it was allocated with, how often it was released, and for every    *)
(* slot: the value, whether it was written, how often the value was moved  *)
(* out (IntoIter::next), destroyed in place (Drop for DynArray<T>) and     *)
(* destroyed by the caller that received it.  The caller owns a few        *)
(* instance handles (arrays, iterators, raw (ptr, len) pairs).             *)
(* Every operation is one atomic action; the allocator calls, element      *)
(* writes, clones and destructor calls it makes are listed, in program     *)
(* order, in `events`.                                                     *)
(***************************************************************************)
EXTENDS Integers, Sequences, FiniteSets

\* ---------------------------------------------------------------- bounds
MaxLen == 2       \* largest array length the caller asks for
MaxVal == 1       \* element values are 0..MaxVal
MaxBlocks == 2    \* blocks the allocator hands out in one run

\* ------------------------------------------------------------- constants
SizeOfT == 4               \* size_of::<T>() for the u32 of the tests
IsizeMax == 2147483647     \* isize::MAX, the limit of Layout::array (32-bit)
Null == 0                  \* the pointer alloc returns on failure
Dangling == -1             \* the aligned non-null pointer of an empty Box<[T]>
Default == 0               \* T::default()
LayoutErr == -2            \* Layout::array::<T>(len) returned Err
Garbage == -3              \* what a slot nobody wrote reads as

Blocks == 1..MaxBlocks
Handles == 1..MaxBlocks
Vals == 0..MaxVal
HugeLen == (IsizeMax \div SizeOfT) + 1
Lens == 0..MaxLen

RECURSIVE SeqsUpTo(_)
SeqsUpTo(n) ==
    IF n = 0 THEN {<<>>}
    ELSE LET S == SeqsUpTo(n - 1)
         IN  S \cup {Append(s, v) : s \in {t \in S : Len(t) = n - 1}, v \in Vals}

VARIABLES heap, handles, held, lastOp, events, status

vars == <<heap, handles, held, lastOp, events, status>>

\* ------------------------------------------------------------------ heap
UninitSlot == [v |-> Garbage, w |-> FALSE, mv |-> 0, dp |-> 0, dc |-> 0]

UnusedBlock == [st |-> "unused", size |-> 0, rel |-> 0, slots |-> <<>>]

Bump(c) == IF c >= 2 THEN 2 ELSE c + 1

HasFresh(hp) == \E b \in Blocks : hp[b].st = "unused"

Fresh(hp) == CHOOSE b \in Blocks :
                /\ hp[b].st = "unused"
                /\ \A c \in Blocks : c < b => hp[c].st # "unused"

\* Layout::array::<T>(len): the byte size, or Err when it exceeds isize::MAX.
LayoutArray(len) == IF len > IsizeMax \div SizeOfT THEN LayoutErr ELSE len * SizeOfT

\* std::alloc::alloc(layout): a fresh block, or null when memory is exhausted.
\* A zero-size layout is outside alloc's contract; the system allocator then
\* answers with either of the two as well.
AllocResults(hp, size) == {Fresh(hp), Null}

\* The request alloc(layout) is within the allocator's contract.
ValidAlloc(size) == size > 0

AllocBlock(hp, p, size, n) ==
    IF p \in Blocks
    THEN [hp EXCEPT ![p] = [st |-> "live", size |-> size, rel |-> 0,
                            slots |-> [i \in 1..n |-> UninitSlot]]]
    ELSE hp

\* MaybeUninit::write / ptr::write of vals[1..] into slots 0.. of block p.
WriteSeq(hp, p, vals) ==
    [hp EXCEPT ![p].slots =
        [i \in 1..Len(hp[p].slots) |->
            IF i <= Len(vals)
            THEN [hp[p].slots[i] EXCEPT !.v = vals[i], !.w = TRUE]
            ELSE hp[p].slots[i]]]

\* The slice (ptr, len) dereferences to.
View(hp, p, len) == IF p \in Blocks THEN [i \in 1..len |-> hp[p].slots[i].v] ELSE <<>>

\* Every slot of the block holds a value nobody has consumed.
AllLive(hp, p) ==
    \A i \in 1..Len(hp[p].slots) :
        LET s == hp[p].slots[i] IN s.w /\ s.mv = 0 /\ s.dp = 0 /\ s.dc = 0

\* ------------------------------------------------------------- instances
\* kind: "none" | "array" | "iter" | "parts" | "box"
\* elem: the element type of the instance: "T" | "MaybeUninit" | "ManuallyDrop"
\* out (iterators): the values next has returned so far
\* snap (raw parts): the element sequence when into_parts was called
NoHandle == [kind |-> "none", elem |-> "T", ptr |-> Null, len |-> 0, idx |-> 0,
             out |-> <<>>, snap |-> <<>>]

Inst(kind, elem, p, len) ==
    [kind |-> kind, elem |-> elem, ptr |-> p, len |-> len, idx |-> 0,
     out |-> <<>>, snap |-> <<>>]

\* The last operation: its name, the handle it acted on, how it ended
\* ("ok" | "panic" | "crash" | "abort" | "some" | "none"), the length and
\* pointer of the array it was about, and its input sequence.
Op(op, h, res, n, p, arg) ==
    [op |-> op, h |-> h, res |-> res, n |-> n, ptr |-> p, arg |-> arg]

Finish(hp, hs, hl, op, ev, st) ==
    /\ heap' = hp
    /\ handles' = hs
    /\ held' = hl
    /\ lastOp' = op
    /\ events' = ev
    /\ status' = st

Min(a, b) == IF a < b THEN a ELSE b

\* ------------------------------------------------ DynArray: from/into_parts
\* unsafe fn from_parts(ptr, len) -> Self { DynArray { ptr, len } }
FromPartsFields(p, len) == [ptr |-> p, len |-> len]

\* impl Drop for DynArray<X>: drop(ptr::read(ptr.add(idx))) runs a destructor
\* only when the element type X is T itself; for MaybeUninit<T> and
\* ManuallyDrop<T> the dropped value does nothing.
DropsAlways(elem) == TRUE

DropsElements(elem) == elem = "T"

\* The index destroyed by the k-th iteration (k = 1..len) of `for idx in 0..len`.
DropIndexReversed(k, len) == len - k

DropIndex(k, len) == k - 1

DropEvents(p, len, elem) ==
    IF DropsElements(elem)
    THEN [k \in 1..len |-> <<"destroy", p, DropIndex(k, len)>>]
    ELSE <<>>

DestroyAll(hp, p, len) ==
    [hp EXCEPT ![p].slots =
        [i \in 1..Len(hp[p].slots) |->
            IF i <= len
            THEN [hp[p].slots[i] EXCEPT !.dp = Bump(hp[p].slots[i].dp)]
            ELSE hp[p].slots[i]]]

\* dealloc(ptr, layout) on the heap: the block is released (again, if it
\* already was); a pointer that is no block leaves the heap as it is.
Dealloc(hp, p) ==
    IF p \in Blocks
    THEN [hp EXCEPT ![p].st = "freed", ![p].rel = Bump(hp[p].rel)]
    ELSE hp

\* What the process does after dealloc(ptr, _): free(NULL) is a no-op; free of
\* a pointer malloc never returned is undefined: the allocator faults, or not.
DeallocStatus(p) == IF p = Dangling THEN {"crashed", "running"} ELSE {"running"}

\* impl Drop for DynArray<X>::drop: the element loop, then Layout::array and
\* dealloc.  With a pointer that is no block and len > 0 the loop reads
\* through it: undefined; for the no-op element types the read may be
\* elided (the drop goes on to dealloc) or fault.
DropOutcomes(hp, p, len, elem) ==
    LET hp1   == IF DropsElements(elem) /\ p \in Blocks
                 THEN DestroyAll(hp, p, len) ELSE hp
        ev    == DropEvents(p, len, elem) \o <<<<"dealloc", p, LayoutArray(len)>>>>
        done  == {[heap |-> Dealloc(hp1, p), events |-> ev, status |-> s] :
                     s \in DeallocStatus(p)}
        fault == [heap |-> hp, events |-> <<>>, status |-> "crashed"]
    IN  IF p \notin Blocks /\ len > 0
        THEN {fault} \cup (IF DropsElements(elem) THEN {} ELSE done)
        ELSE done

\* into_parts(self): ManuallyDrop::new(self) keeps self's drop from running.
IntoPartsDropsSelf(hp, p, len, elem) == DropOutcomes(hp, p, len, elem)

IntoPartsOutcomes(hp, p, len, elem) ==
    {[heap |-> hp, events |-> <<>>, status |-> "running"]}

\* ------------------------------------------------------- DynArray: new_uninit
\* new_uninit(len): Layout::array::<T>(len).unwrap() panics on Err; the result
\* of alloc(layout) is then handed to from_parts as it comes (no null check,
\* no zero-size check).
NewUninitOutcomes(hp, len) ==
    LET size == LayoutArray(len) IN
    IF size = LayoutErr
    THEN {[res |-> "panic", heap |-> hp, ptr |-> Null, events |-> <<>>]}
    ELSE {[res |-> "ok", heap |-> AllocBlock(hp, p, size, len),
           ptr |-> FromPartsFields(p, len).ptr,
           events |-> <<<<"alloc", size, p>>>>] : p \in AllocResults(hp, size)}

NewUninit(h, len) ==
    /\ status = "running"
    /\ handles[h].kind = "none"
    /\ HasFresh(heap)
    /\ \E r \in NewUninitOutcomes(heap, len) :
          Finish(r.heap,
                 IF r.res = "ok"
                 THEN [handles EXCEPT ![h] = Inst("array", "MaybeUninit", r.ptr, len)]
                 ELSE handles,
                 held, Op("new_uninit", h, r.res, len, r.ptr, <<>>), r.events, "running")

\* a[i].write(v) through DerefMut on an uninitialized array (tests::uninit_test).
\* Through a pointer that is no block the write faults.
WriteSlot(h, i, v) ==
    /\ status = "running"
    /\ handles[h].kind = "array"
    /\ handles[h].elem = "MaybeUninit"
    /\ i < handles[h].len
    /\ LET a == handles[h] IN
       IF a.ptr \notin Blocks
       THEN Finish(heap, handles, held, Op("write", h, "crash", a.len, a.ptr, <<v>>),
                   <<>>, "crashed")
       ELSE /\ ~heap[a.ptr].slots[i + 1].w
            /\ Finish([heap EXCEPT ![a.ptr].slots[i + 1].v = v,
                                   ![a.ptr].slots[i + 1].w = TRUE],
                      handles, held, Op("write", h, "ok", a.len, a.ptr, <<v>>),
                      <<<<"write", a.ptr, i>>>>, "running")

\* The caller's side of assume_init's contract: every slot has been written.
AllWritten(hp, p, len) ==
    IF p \in Blocks THEN \A i \in 1..len : hp[p].slots[i].w ELSE len = 0

\* assume_init(self): into_parts, then from_parts at element type T.
AssumeInit(h) ==
    /\ status = "running"
    /\ handles[h].kind = "array"
    /\ handles[h].elem = "MaybeUninit"
    /\ AllWritten(heap, handles[h].ptr, handles[h].len)
    /\ LET a == handles[h] IN
       \E q \in IntoPartsOutcomes(heap, a.ptr, a.len, a.elem) :
          Finish(q.heap, [handles EXCEPT ![h] = Inst("array", "T", a.ptr, a.len)],
                 held, Op("assume_init", h, "ok", a.len, a.ptr, <<>>), q.events, q.status)

WriteEvents(p, n) == [i \in 1..n |-> <<"write", p, i - 1>>]

\* The common tail of new, from_iter and From<&[T]>: write vals into the slots
\* of the array new_uninit returned (outcome r), in index order, then
\* assume_init.  Writing through a null pointer faults.
FillAndInit(h, op, r, vals, ev) ==
    LET n == op.n IN
    IF r.ptr \notin Blocks /\ Len(vals) > 0
    THEN Finish(r.heap, handles, held, Op(op.op, h, "crash", op.n, r.ptr, op.arg),
                r.events, "crashed")
    ELSE LET hp1 == IF r.ptr \in Blocks THEN WriteSeq(r.heap, r.ptr, vals) ELSE r.heap IN
         \E q \in IntoPartsOutcomes(hp1, r.ptr, n, "MaybeUninit") :
            Finish(q.heap, [handles EXCEPT ![h] = Inst("array", "T", r.ptr, n)], held,
                   Op(op.op, h, "ok", op.n, r.ptr, op.arg),
                   r.events \o ev \o q.events, q.status)

\* ------------------------------------------------------------- DynArray::new
\* The values new writes: T::default() into every element of iter_mut().
NewFillShort(len) == [i \in 1..(IF len > 0 THEN len - 1 ELSE 0) |-> Default]

NewFill(len) == [i \in 1..len |-> Default]

New(h, len) ==
    /\ status = "running"
    /\ handles[h].kind = "none"
    /\ HasFresh(heap)
    /\ \E r \in NewUninitOutcomes(heap, len) :
          IF r.res = "panic"
          THEN Finish(heap, handles, held, Op("new", h, "panic", len, Null, <<>>),
                      <<>>, "running")
          ELSE FillAndInit(h, Op("new", h, "ok", len, r.ptr, <<>>), r, NewFill(len),
                           WriteEvents(r.ptr, Len(NewFill(len))))

\* ------------------------------------------------------- DynArray::from_iter
\* How from_iter ends for a producer that reports k and yields n items: the
\* k-th expect panics when the producer runs dry ("short"), the assert after
\* the loop panics when it has one more ("long").
FromIterNoAssert(k, n) == IF n < k THEN "short" ELSE "ok"

FromIterVerdict(k, n) == IF n < k THEN "short" ELSE IF n > k THEN "long" ELSE "ok"

\* from_iter(iter): new_uninit(iter.len()), one write per slot while the
\* producer yields, then the assert, then assume_init.  A panic unwinds
\* through the DynArray<MaybeUninit<T>>, whose drop releases the block and
\* destroys nothing.
FromIter(h, k, items) ==
    /\ status = "running"
    /\ handles[h].kind = "none"
    /\ HasFresh(heap)
    /\ Len(items) <= k + 1
    /\ \E r \in NewUninitOutcomes(heap, k) :
          LET verdict == FromIterVerdict(k, Len(items))
              taken   == Min(k, Len(items))
              op      == Op("from_iter", h, "ok", k, r.ptr, items)
          IN  IF verdict = "ok"
              THEN FillAndInit(h, op, r, SubSeq(items, 1, taken), WriteEvents(r.ptr, taken))
              ELSE IF r.ptr \notin Blocks /\ taken > 0
              THEN Finish(r.heap, handles, held, [op EXCEPT !.res = "crash"],
                          r.events, "crashed")
              ELSE LET hp1 == IF r.ptr \in Blocks
                              THEN WriteSeq(r.heap, r.ptr, SubSeq(items, 1, taken))
                              ELSE r.heap
                   IN  \E d \in DropOutcomes(hp1, r.ptr, k, "MaybeUninit") :
                          Finish(d.heap, handles, held,
                                 [op EXCEPT !.res = IF d.status = "running"
                                                    THEN "panic" ELSE "crash"],
                                 r.events \o WriteEvents(r.ptr, taken)
                                    \o (IF verdict = "long"
                                        THEN <<<<"destroy_item", k, items[k + 1]>>>>
                                        ELSE <<>>)
                                    \o d.events,
                                 d.status)

\* ------------------------------------------ From<&[T]>, From<&mut [T]>, Clone
\* clone of element i-1, then the write of slot i-1, for each i in turn.
CloneWriteEvents(p, src) ==
    [j \in 1..(2 * Len(src)) |->
        IF j % 2 = 1
        THEN <<"clone", (j + 1) \div 2 - 1, src[(j + 1) \div 2]>>
        ELSE <<"write", p, j \div 2 - 1>>]

\* dst.write(val.clone()) for each (dst, val) of iter_mut().zip(slice).
Cloned(src) == src

\* impl From<&[T]> for DynArray<T> (From<&mut [T]> forwards to it).
FromSlice(h, src) ==
    /\ status = "running"
    /\ handles[h].kind = "none"
    /\ HasFresh(heap)
    /\ \E r \in NewUninitOutcomes(heap, Len(src)) :
          FillAndInit(h, Op("from_slice", h, "ok", Len(src), r.ptr, src), r, Cloned(src),
                      CloneWriteEvents(r.ptr, src))

\* impl Clone: DynArray::from(&**self), the slice being deref's view of self.
CloneArray(h, g) ==
    /\ status = "running"
    /\ handles[h].kind = "none"
    /\ handles[g].kind = "array"
    /\ handles[g].elem = "T"
    /\ HasFresh(heap)
    /\ LET src == View(heap, handles[g].ptr, handles[g].len) IN
       \E r \in NewUninitOutcomes(heap, Len(src)) :
          FillAndInit(h, Op("clone", h, "ok", Len(src), r.ptr, src), r, Cloned(src),
                      CloneWriteEvents(r.ptr, src))

\* --------------------------------------------- From<Box<[T]>>, From<[T; N]>
\* Box::new / a boxed slice of vals: no allocation for zero bytes (the pointer
\* is dangling), otherwise one allocation, which aborts the process when it
\* fails (handle_alloc_error).
BoxOutcomes(hp, vals) ==
    LET n == Len(vals)
        size == LayoutArray(n)
    IN  IF size = 0
        THEN {[res |-> "ok", heap |-> hp, ptr |-> Dangling, events |-> <<>>]}
        ELSE {[res |-> "ok",
               heap |-> WriteSeq(AllocBlock(hp, Fresh(hp), size, n), Fresh(hp), vals),
               ptr |-> Fresh(hp), events |-> <<<<"alloc", size, Fresh(hp)>>>>],
              [res |-> "abort", heap |-> hp, ptr |-> Null,
               events |-> <<<<"alloc", size, Null>>>>]}

\* The caller builds a Box<[T]> (the argument of From<Box<[T]>>).
MakeBox(h, vals) ==
    /\ status = "running"
    /\ handles[h].kind = "none"
    /\ HasFresh(heap)
    /\ \E b \in BoxOutcomes(heap, vals) :
          IF b.res = "abort"
          THEN Finish(heap, handles, held, Op("make_box", h, "abort", Len(vals), Null, vals),
                      b.events, "aborted")
          ELSE Finish(b.heap, [handles EXCEPT ![h] = Inst("box", "T", b.ptr, Len(vals))],
                      held, Op("make_box", h, "ok", Len(vals), b.ptr, vals),
                      b.events, "running")

\* From<Box<[T]>>: len = boxed_slice.len(); ptr = Box::into_raw(..).as_mut_ptr();
\* from_parts(ptr, len).
FromBoxShort(bp, bn) == FromPartsFields(bp, IF bn > 0 THEN bn - 1 ELSE 0)

FromBoxFields(bp, bn) == FromPartsFields(bp, bn)

FromBox(h) ==
    /\ status = "running"
    /\ handles[h].kind = "box"
    /\ LET f == FromBoxFields(handles[h].ptr, handles[h].len) IN
       Finish(heap, [handles EXCEPT ![h] = Inst("array", "T", f.ptr, f.len)], held,
              Op("from_box", h, "ok", handles[h].len, handles[h].ptr,
                 View(heap, handles[h].ptr, handles[h].len)),
              <<>>, "running")

\* From<[T; N]>: Box::new(array), then From<Box<[T]>>.
FromArray(h, vals) ==
    /\ status = "running"
    /\ handles[h].kind = "none"
    /\ HasFresh(heap)
    /\ \E b \in BoxOutcomes(heap, vals) :
          IF b.res = "abort"
          THEN Finish(heap, handles, held,
                      Op("from_array", h, "abort", Len(vals), Null, vals),
                      b.events, "aborted")
          ELSE LET f == FromBoxFields(b.ptr, Len(vals)) IN
               Finish(b.heap, [handles EXCEPT ![h] = Inst("array", "T", f.ptr, f.len)],
                      held, Op("from_array", h, "ok", Len(vals), b.ptr, vals),
                      b.events, "running")

\* ------------------------------------------------- into_parts / from_parts
\* a.into_parts(): the caller now holds the raw (ptr, len) pair.
IntoParts(h) ==
    /\ status = "running"
    /\ handles[h].kind = "array"
    /\ handles[h].elem = "T"
    /\ LET a == handles[h] IN
       \E q \in IntoPartsOutcomes(heap, a.ptr, a.len, a.elem) :
          Finish(q.heap,
                 [handles EXCEPT ![h] = [Inst("parts", "T", a.ptr, a.len)
                                            EXCEPT !.snap = View(heap, a.ptr, a.len)]],
                 held, Op("into_parts", h, "ok", a.len, a.ptr, <<>>), q.events, q.status)

\* DynArray::from_parts(ptr, len) on the pair into_parts returned.
FromParts(h) ==
    /\ status = "running"
    /\ handles[h].kind = "parts"
    /\ LET a == handles[h]
           f == FromPartsFields(a.ptr, a.len)
       IN  Finish(heap,
                  [handles EXCEPT ![h] = [Inst("array", "T", f.ptr, f.len)
                                             EXCEPT !.snap = a.snap]],
                  held, Op("from_parts", h, "ok", a.len, a.ptr, <<>>), <<>>, "running")

\* ------------------------------------------------------------------ IntoIter
\* The element type of IntoIter's inner array: DynArray<ManuallyDrop<T>>.
IterElemPlain == "T"

IterElem == "ManuallyDrop"

\* into_iter(self): into_parts, from_parts at ManuallyDrop<T>, idx = 0.
IntoIter(h) ==
    /\ status = "running"
    /\ handles[h].kind = "array"
    /\ handles[h].elem = "T"
    /\ LET a == handles[h] IN
       \E q \in IntoPartsOutcomes(heap, a.ptr, a.len, a.elem) :
          LET f == FromPartsFields(a.ptr, a.len) IN
          Finish(q.heap, [handles EXCEPT ![h] = Inst("iter", IterElem, f.ptr, f.len)],
                 held, Op("into_iter", h, "ok", a.len, a.ptr, <<>>), q.events, q.status)

\* The slot next reads once it has incremented idx: ptr.add(self.idx - 1).
NextSlotNoBackstep(idx) == idx

NextSlot(idx) == idx - 1

\* next(&mut self): None once idx >= len; otherwise idx += 1 and ptr::read of
\* the slot, whose value now belongs to the caller.  A read outside the block
\* faults.
IterNext(h) ==
    /\ status = "running"
    /\ handles[h].kind = "iter"
    /\ LET it == handles[h] IN
       IF it.idx >= it.len
       THEN Finish(heap, handles, held, Op("next", h, "none", it.len, it.ptr, <<>>),
                   <<>>, "running")
       ELSE LET i == NextSlot(it.idx + 1) IN
            IF it.ptr \notin Blocks \/ i < 0 \/ i >= Len(heap[it.ptr].slots)
            THEN Finish(heap, handles, held, Op("next", h, "crash", it.len, it.ptr, <<>>),
                        <<>>, "crashed")
            ELSE LET s == heap[it.ptr].slots[i + 1] IN
                 Finish([heap EXCEPT ![it.ptr].slots[i + 1].mv = Bump(s.mv)],
                        [handles EXCEPT ![h].idx = it.idx + 1,
                                        ![h].out = Append(it.out, s.v)],
                        held \cup {<<it.ptr, i>>},
                        Op("next", h, "some", it.len, it.ptr, <<s.v>>),
                        <<<<"read", it.ptr, i>>>>, "running")

\* The caller destroys an element next gave it.
CallerDrop(e) ==
    /\ status = "running"
    /\ e \in held
    /\ Finish([heap EXCEPT ![e[1]].slots[e[2] + 1].dc = Bump(heap[e[1]].slots[e[2] + 1].dc)],
              handles, held \ {e}, Op("caller_drop", 0, "ok", 0, e[1], <<>>),
              <<<<"destroy_by_caller", e[1], e[2]>>>>, "running")

\* ----------------------------------------------------------------------- drop
\* An array of either element type, or an iterator (whose only field with a
\* destructor is its inner array), goes out of scope.
DropName(a) == IF a.kind = "iter" THEN "drop_iter"
               ELSE IF a.elem = "T" THEN "drop_array" ELSE "drop_uninit"

DropInst(h) ==
    /\ status = "running"
    /\ handles[h].kind \in {"array", "iter"}
    /\ LET a == handles[h] IN
       \E d \in DropOutcomes(heap, a.ptr, a.len, a.elem) :
          Finish(d.heap, [handles EXCEPT ![h] = NoHandle], held,
                 Op(DropName(a), h, IF d.status = "running" THEN "ok" ELSE "crash",
                    a.len, a.ptr, <<>>),
                 d.events, d.status)

\* ---------------------------------------------------------------------- spec
Init ==
    /\ heap = [b \in Blocks |-> UnusedBlock]
    /\ handles = [h \in Handles |-> NoHandle]
    /\ held = {}
    /\ lastOp = Op("init", 0, "ok", 0, Null, <<>>)
    /\ events = <<>>
    /\ status = "running"

Next ==
    \/ \E h \in Handles, len \in Lens \cup {HugeLen} : NewUninit(h, len)
    \/ \E h \in Handles, i \in 0..(MaxLen - 1), v \in Vals : WriteSlot(h, i, v)
    \/ \E h \in Handles : AssumeInit(h)
    \/ \E h \in Handles, len \in Lens \cup {HugeLen} : New(h, len)
    \/ \E h \in Handles, k \in Lens, items \in SeqsUpTo(MaxLen + 1) : FromIter(h, k, items)
    \/ \E h \in Handles, src \in SeqsUpTo(MaxLen) : FromSlice(h, src)
    \/ \E h \in Handles, g \in Handles : CloneArray(h, g)
    \/ \E h \in Handles, vals \in SeqsUpTo(MaxLen) : MakeBox(h, vals)
    \/ \E h \in Handles : FromBox(h)
    \/ \E h \in Handles, vals \in SeqsUpTo(MaxLen) : FromArray(h, vals)
    \/ \E h \in Handles : IntoParts(h)
    \/ \E h \in Handles : FromParts(h)
    \/ \E h \in Handles : IntoIter(h)
    \/ \E h \in Handles : IterNext(h)
    \/ \E e \in held : CallerDrop(e)
    \/ \E h \in Handles : DropInst(h)

Spec == Init /\ [][Next]_vars

\* ==================================================================== claims
IsAlloc(e) == e[1] = "alloc"
IsDestroy(e) == e[1] = "destroy"

NoDestroy(ev) == \A j \in 1..Len(ev) : ~IsDestroy(ev[j])

\* alloc wants a non-zero size; dealloc wants a block alloc returned, with the
\* layout it was allocated with.
ValidRequest(e) ==
    /\ e[1] = "alloc" => ValidAlloc(e[2])
    /\ e[1] = "dealloc" => e[2] \in Blocks /\ e[3] > 0

AllocFailed(ev) == \E j \in 1..Len(ev) : IsAlloc(ev[j]) /\ ev[j][2] > 0 /\ ev[j][3] = Null

Owners(b) == {h \in Handles : handles[h].kind # "none" /\ handles[h].ptr = b}

\* C1: dropping an initialized array of N elements destroys elements
\* 0, 1, .., N-1 in that order, each exactly once, and then makes one dealloc
\* request, for the array's pointer with the layout of N elements of T, which
\* is the layout the block was allocated with.
C1_DropDestroysInOrderThenReleases ==
    (lastOp.op = "drop_array" /\ lastOp.res = "ok") =>
        LET p == lastOp.ptr
            n == lastOp.n
        IN  /\ events = [k \in 1..n |-> <<"destroy", p, k - 1>>]
                           \o <<<<"dealloc", p, n * SizeOfT>>>>
            /\ p \in Blocks =>
                  /\ heap[p].size = n * SizeOfT
                  /\ heap[p].st = "freed"
                  /\ heap[p].rel = 1
                  /\ Len(heap[p].slots) = n
                  /\ \A i \in 1..n : LET s == heap[p].slots[i] IN
                                        s.dp = 1 /\ s.mv = 0 /\ s.dc = 0
            /\ n > 0 => p \in Blocks

C1_Witness ==
    /\ lastOp.op = "drop_array"
    /\ lastOp.res = "ok"
    /\ lastOp.n = MaxLen
    /\ lastOp.ptr \in Blocks
    /\ Len(events) = MaxLen + 1

\* C2: a consuming iterator yields the array's elements in index order (what
\* it has returned after idx calls is the first idx elements); once next has
\* returned None it has yielded all N, each of them was moved out exactly once
\* and is destroyed by the caller alone (once the caller let go of it), never
\* in place; and dropping the iterator destroys no element.
C2_FullConsumption ==
    /\ \A h \in Handles :
          handles[h].kind = "iter" =>
             LET it == handles[h] IN
             /\ it.idx <= it.len
             /\ it.out = SubSeq(View(heap, it.ptr, it.len), 1, it.idx)
             /\ (lastOp.op = "next" /\ lastOp.res = "none" /\ lastOp.h = h) =>
                   /\ it.idx = it.len
                   /\ Len(it.out) = it.len
                   /\ events = <<>>
                   /\ \A i \in 1..it.len :
                         LET s == heap[it.ptr].slots[i] IN
                         /\ s.mv = 1
                         /\ s.dp = 0
                         /\ s.dc = IF <<it.ptr, i - 1>> \in held THEN 0 ELSE 1
    /\ (lastOp.op = "drop_iter" /\ lastOp.ptr \in Blocks) =>
          /\ NoDestroy(events)
          /\ \A i \in 1..lastOp.n :
                LET s == heap[lastOp.ptr].slots[i] IN s.dp = 0 /\ s.dc <= s.mv /\ s.mv <= 1

C2_Witness ==
    /\ lastOp.op = "next"
    /\ lastOp.res = "none"
    /\ handles[lastOp.h].kind = "iter"
    /\ handles[lastOp.h].len = MaxLen
    /\ handles[lastOp.h].out[1] # handles[lastOp.h].out[MaxLen]
    /\ held = {}

\* C3: when new(N) returns, the array has length N, its block was allocated
\* for N elements, slots 0..N-1 were written in index order before the
\* conversion, and every slot holds T::default().
C3_NewFillsDefault ==
    (lastOp.op = "new" /\ lastOp.res = "ok") =>
        LET a == handles[lastOp.h]
            n == lastOp.n
        IN  /\ a.kind = "array"
            /\ a.elem = "T"
            /\ a.len = n
            /\ n > 0 => a.ptr \in Blocks
            /\ a.ptr \in Blocks =>
                  /\ Len(heap[a.ptr].slots) = n
                  /\ AllLive(heap, a.ptr)
                  /\ View(heap, a.ptr, n) = [i \in 1..n |-> Default]
            /\ events = <<<<"alloc", n * SizeOfT, a.ptr>>>>
                           \o [i \in 1..n |-> <<"write", a.ptr, i - 1>>]

C3_Witness ==
    /\ lastOp.op = "new"
    /\ lastOp.res = "ok"
    /\ lastOp.n = MaxLen
    /\ View(heap, handles[lastOp.h].ptr, MaxLen) = [i \in 1..MaxLen |-> Default]

\* C4: building a zero-length array with new_uninit(0) and assume_init and
\* dropping it destroys no element, does not panic or fault, and makes only
\* valid requests to the allocator.
C4_ZeroLengthRequestsValid ==
    (lastOp.n = 0 /\ lastOp.op \in {"new_uninit", "assume_init", "drop_array"}) =>
        /\ lastOp.res = "ok"
        /\ NoDestroy(events)
        /\ \A j \in 1..Len(events) : ValidRequest(events[j])

\* C5: from_iter on a producer that reports K returns exactly when the
\* producer yields K items, and then the array has length K and holds the
\* items in yield order, every slot written; when the producer yields fewer
\* or more it panics (the allocation having succeeded) and the caller gets no
\* array.
C5_FromIterExact ==
    lastOp.op = "from_iter" =>
        LET k == lastOp.n
            items == lastOp.arg
            a == handles[lastOp.h]
        IN  /\ Len(items) # k => lastOp.res \in {"panic", "crash"} /\ a.kind = "none"
            /\ (Len(items) # k /\ lastOp.ptr \in Blocks) =>
                  /\ lastOp.res = "panic"
                  /\ heap[lastOp.ptr].st = "freed"
                  /\ heap[lastOp.ptr].rel = 1
            /\ (Len(items) = k /\ (k = 0 \/ lastOp.ptr \in Blocks)) => lastOp.res = "ok"
            /\ lastOp.res = "ok" =>
                  /\ a.kind = "array"
                  /\ a.elem = "T"
                  /\ a.len = k
                  /\ Len(items) = k
                  /\ k > 0 => a.ptr \in Blocks
                  /\ a.ptr \in Blocks => AllLive(heap, a.ptr) /\ View(heap, a.ptr, k) = items

C5_Witness ==
    /\ lastOp.op = "from_iter"
    /\ lastOp.res = "panic"
    /\ lastOp.n = MaxLen
    /\ Len(lastOp.arg) = MaxLen - 1
    /\ lastOp.ptr \in Blocks

\* C6: an operation during which the allocator could not supply a block of
\* non-zero size ends the way a layout failure does (it does not return) and
\* leaves no array behind that points at no block.
C6_AllocFailureIsFatal ==
    AllocFailed(events) =>
        /\ lastOp.res \in {"panic", "abort"}
        /\ \A h \in Handles : handles[h].kind = "array" => handles[h].ptr # Null

\* C7: while the caller holds the raw parts of an array, its block is neither
\* released nor changed and no element is consumed; from_parts on the same
\* pair gives an array with the same pointer, length and element sequence.
C7_RoundTrip ==
    \A h \in Handles :
        LET a == handles[h]
            intact == /\ Len(a.snap) = a.len
                      /\ View(heap, a.ptr, a.len) = a.snap
                      /\ a.len > 0 => a.ptr \in Blocks
                      /\ a.ptr \in Blocks =>
                            /\ heap[a.ptr].st = "live"
                            /\ heap[a.ptr].rel = 0
                            /\ AllLive(heap, a.ptr)
        IN  /\ a.kind = "parts" => intact
            /\ (lastOp.op = "from_parts" /\ lastOp.h = h) =>
                  /\ a.kind = "array"
                  /\ a.elem = "T"
                  /\ a.ptr = lastOp.ptr
                  /\ a.len = lastOp.n
                  /\ events = <<>>
                  /\ intact

C7_Witness ==
    /\ lastOp.op = "from_parts"
    /\ handles[lastOp.h].len = MaxLen
    /\ handles[lastOp.h].snap[1] # handles[lastOp.h].snap[MaxLen]

\* C8: dropping an iterator that has not yielded every element releases the
\* block exactly once and runs no destructor: not for the unyielded elements,
\* not for the yielded ones.
C8_AbandonedIterator ==
    (/\ lastOp.op = "drop_iter"
     /\ lastOp.ptr \in Blocks
     /\ \E i \in 1..lastOp.n : heap[lastOp.ptr].slots[i].mv = 0) =>
        LET b == heap[lastOp.ptr] IN
        /\ events = <<<<"dealloc", lastOp.ptr, lastOp.n * SizeOfT>>>>
        /\ b.st = "freed"
        /\ b.rel = 1
        /\ \A i \in 1..lastOp.n : b.slots[i].dp = 0 /\ b.slots[i].mv <= 1

C8_Witness ==
    /\ lastOp.op = "drop_iter"
    /\ lastOp.ptr \in Blocks
    /\ lastOp.n = MaxLen
    /\ heap[lastOp.ptr].slots[1].mv = 1
    /\ heap[lastOp.ptr].slots[MaxLen].mv = 0

\* C9 as stated: a conversion from an owned source (array or boxed slice)
\* makes no allocation.
C9_NoAllocation ==
    (lastOp.op \in {"from_box", "from_array"} /\ lastOp.res = "ok") => events = <<>>

\* C9 amended: From<Box<[T]>> takes over the box's pointer and length with no
\* allocator request; From<[T; N]> makes exactly the one allocation of Box::new
\* (none when N elements take zero bytes) and nothing else; in both the array
\* has the source's length and elements in order and every element is intact.
C9_OwnedSource ==
    (lastOp.op \in {"from_box", "from_array"} /\ lastOp.res = "ok") =>
        LET a == handles[lastOp.h]
            n == lastOp.n
        IN  /\ a.kind = "array"
            /\ a.elem = "T"
            /\ a.ptr = lastOp.ptr
            /\ a.len = n
            /\ Len(lastOp.arg) = n
            /\ View(heap, a.ptr, a.len) = lastOp.arg
            /\ n > 0 => a.ptr \in Blocks
            /\ a.ptr \in Blocks => heap[a.ptr].st = "live" /\ AllLive(heap, a.ptr)
            /\ lastOp.op = "from_box" => events = <<>>
            /\ lastOp.op = "from_array" =>
                  events = IF n * SizeOfT > 0
                           THEN <<<<"alloc", n * SizeOfT, a.ptr>>>> ELSE <<>>

C9_Witness ==
    /\ lastOp.op = "from_box"
    /\ lastOp.n = MaxLen
    /\ lastOp.arg[1] # lastOp.arg[MaxLen]

\* C10: no element is consumed twice (moved out by next or destroyed in place,
\* at most one of them once; destroyed by the caller only after it was moved
\* out), no block is released twice, a released block has no owner and a live
\* block has exactly one.
C10_SingleOwnership ==
    /\ \A b \in Blocks :
          /\ heap[b].rel <= 1
          /\ heap[b].st = "freed" <=> heap[b].rel = 1
          /\ heap[b].st = "freed" => Owners(b) = {}
          /\ heap[b].st = "live" => Cardinality(Owners(b)) = 1
          /\ \A i \in 1..Len(heap[b].slots) :
                LET s == heap[b].slots[i] IN
                /\ s.mv + s.dp <= 1
                /\ s.dc <= s.mv
                /\ (s.mv + s.dp > 0) => s.w
    /\ \A e \in held : heap[e[1]].slots[e[2] + 1].mv = 1 /\ heap[e[1]].slots[e[2] + 1].dc = 0

C10_Witness ==
    /\ lastOp.op = "drop_iter"
    /\ lastOp.ptr \in Blocks
    /\ lastOp.n = MaxLen
    /\ \A i \in 1..MaxLen : heap[lastOp.ptr].slots[i].dc = 1
    /\ \E b \in Blocks : b # lastOp.ptr /\ heap[b].st = "freed"
                         /\ Len(heap[b].slots) > 0 /\ heap[b].slots[1].dp = 1

====
